---------------------------- MODULE Spec2Model ----------------------------
(***************************************************************************)
(* A model of code/classifier/fine-tuning.py: the emotion-classification   *)
(* fine-tuning script.  main loads a labelled CSV, builds label targets    *)
(* (load_data), runs a stratified 10-fold cross-validation                 *)
(* (cross_validate_model) in which every fold tokenizes, loads a fresh     *)
(* pretrained model, trains and evaluates it (compute_metrics), then       *)
(* writes fold_metrics.csv, averages the folds (aggregate_metrics) and     *)
(* writes the averaged metrics (save_metrics).                             *)
(*                                                                         *)
(* Three specifications share the variables:                               *)
(*   Spec      a run of main, one action per statement that can fail or    *)
(*             has an effect;                                              *)
(*   SpecLoad  load_data applied to every small CSV;                       *)
(*   SpecAgg   compute_metrics / aggregate_metrics applied to bounded      *)
(*             lists of fold predictions.                                  *)
(*                                                                         *)
(* Conventions: a pandas DataFrame is a sequence of rows (functions from   *)
(* column names to cells) plus an optional 'labels' column; a missing cell *)
(* is NaN; numpy/sklearn floats are exact rationals <<num, den>> in lowest *)
(* terms; a Python exception ends the run in pc = "crashed" with its name  *)
(* in error.                                                               *)
(***************************************************************************)
EXTENDS Integers, Sequences, FiniteSets, TLC

VARIABLES
    multiclass,             \* args.multiclass
    csv,                    \* the rows pd.read_csv returns for args.input_csv
    pc,                     \* the statement main / cross_validate_model is at
    error,                  \* the exception that ended the run, or "none"
    df,                     \* main's df: what load_data returned
    texts,                  \* df['sentence'].to_numpy()
    labels,                 \* df['labels'].to_numpy()
    test_folds,             \* the fold of every sample, as skf.split decided it
    fold,                   \* enumerate's counter (0-based)
    train_dataset,          \* the current fold's train_dataset
    test_dataset,           \* the current fold's test_dataset
    model,                  \* the current fold's model: the samples it was trained on
    fold_metrics,           \* list of eval_metrics
    fold_detailed_metrics,  \* list of {"fold": fold + 1, **eval_metrics}
    avg_metrics,            \* what aggregate_metrics returned
    files,                  \* the metric CSV files written, in order
    calls,                  \* the stages performed so far, in order
    runs                    \* per trainer.evaluate() call: the model and data it used

vars == <<multiclass, csv, pc, error, df, texts, labels, test_folds, fold,
          train_dataset, test_dataset, model, fold_metrics,
          fold_detailed_metrics, avg_metrics, files, calls, runs>>

---------------------------------------------------------------------------
(* Bounds of the model *)

\* SpecLoad: the largest number of rows of a CSV
MaxRows == 2

\* The cell values the emotion columns of an input CSV are drawn from: three
\* of the nine emotions (the first, a middle one, the last), a name that is
\* not in MULTICLASS_LABEL_MAP, and the missing cell.
NaN == "NaN"

InputEmotions == {"Joy", "Trust", "Neutral", "Hope", NaN}

---------------------------------------------------------------------------
(* Label maps *)

MULTICLASS_LABEL_MAP ==
    "Joy" :> 0 @@ "Sadness" :> 1 @@ "Anger" :> 2 @@ "Fear" :> 3 @@
    "Trust" :> 4 @@ "Disgust" :> 5 @@ "Surprise" :> 6 @@
    "Anticipation" :> 7 @@ "Neutral" :> 8

BINARY_LABEL_MAP == [Positive |-> 1, Negative |-> 0]

\* len(MULTICLASS_LABEL_MAP)
LenLabelMap == Cardinality(DOMAIN MULTICLASS_LABEL_MAP)

\* num_labels of AutoModelForSequenceClassification.from_pretrained
NumLabels(mc) == IF mc THEN LenLabelMap ELSE 2

---------------------------------------------------------------------------
(* load_data *)

\* pd.notna
notna(v) == v # NaN

\* df[['emotion-A', 'emotion-B']] of one row: the Series x the lambda gets.
\* x[0] and x[1] of the source read it by position (pandas before 3.0, where
\* an integer key on a string-labelled Series falls back to the position);
\* they are x[1] and x[2] here, sequences starting at 1.
EmotionPair(row) == <<row["emotion-A"], row["emotion-B"]>>

\* d[k] of a Python dict raises KeyError unless k is a key
HasKey(d, k) == k \in DOMAIN d

\* LambdaRaises without the pd.notna test: both emotions are looked up
LambdaRaisesWithoutNotna(x) ==
    ~HasKey(MULTICLASS_LABEL_MAP, x[1]) \/ ~HasKey(MULTICLASS_LABEL_MAP, x[2])

\* Whether the lambda of line 42 raises KeyError on x: it looks up x[0]
\* always and x[1] when it is not NaN.
LambdaRaises(x) ==
    IF notna(x[2])
    THEN ~HasKey(MULTICLASS_LABEL_MAP, x[1]) \/ ~HasKey(MULTICLASS_LABEL_MAP, x[2])
    ELSE ~HasKey(MULTICLASS_LABEL_MAP, x[1])

\* The lambda of line 42 where it does not raise
LabelList(x) ==
    IF notna(x[2])
    THEN <<MULTICLASS_LABEL_MAP[x[1]], MULTICLASS_LABEL_MAP[x[2]]>>
    ELSE <<MULTICLASS_LABEL_MAP[x[1]]>>

\* Flatten taking the last entry of the list, x[-1]
FlattenLast(x) == x[Len(x)]

\* lambda x: x[0] of line 45
Flatten(x) == x[1]

\* BinaryLabel comparing the emotion with emotion-A alone
BinaryLabelOnlyA(emotion, row) ==
    IF emotion = row["emotion-A"]
    THEN BINARY_LABEL_MAP.Positive ELSE BINARY_LABEL_MAP.Negative

\* The value appended for one emotion and one row (line 51)
BinaryLabel(emotion, row) ==
    IF emotion \in {row["emotion-A"], row["emotion-B"]}
    THEN BINARY_LABEL_MAP.Positive ELSE BINARY_LABEL_MAP.Negative

\* binary_labels after the loops of lines 47-52: iterrows visits the rows
\* in order and appends one value per emotion and row.
RECURSIVE BinaryLabels(_)
BinaryLabels(rows) ==
    IF rows = <<>>
    THEN [emotion \in DOMAIN MULTICLASS_LABEL_MAP |-> <<>>]
    ELSE LET n == Len(rows)
             before == BinaryLabels(SubSeq(rows, 1, n - 1))
         IN  [emotion \in DOMAIN MULTICLASS_LABEL_MAP |->
                 Append(before[emotion], BinaryLabel(emotion, rows[n]))]

\* What load_data(input_csv, multiclass) returns or raises, rows being the
\* DataFrame read from input_csv.
load_data(rows, mc) ==
    IF mc
    THEN IF \E r \in DOMAIN rows : LambdaRaises(EmotionPair(rows[r]))
         THEN [kind |-> "KeyError"]
         ELSE [kind |-> "DataFrame", rows |-> rows,
               labels |-> [r \in DOMAIN rows |->
                              Flatten(LabelList(EmotionPair(rows[r])))]]
    ELSE [kind |-> "tuple", rows |-> rows, binary_labels |-> BinaryLabels(rows)]

---------------------------------------------------------------------------
(* Exact arithmetic for the metrics: a float is a rational <<num, den>>,   *)
(* den > 0, in lowest terms.                                               *)

RECURSIVE GCD(_, _)
GCD(a, b) == IF b = 0 THEN a ELSE GCD(b, a % b)

Abs(n) == IF n < 0 THEN -n ELSE n

Rat(n, d) ==
    LET g == GCD(Abs(n), Abs(d))
        s == IF d < 0 THEN -1 ELSE 1
    IN  <<(s * n) \div g, (s * d) \div g>>

Zero == Rat(0, 1)

RatAdd(a, b) == Rat(a[1] * b[2] + b[1] * a[2], a[2] * b[2])

RatMul(a, b) == Rat(a[1] * b[1], a[2] * b[2])

\* a / b, b # 0
RatDiv(a, b) == Rat(a[1] * b[2], a[2] * b[1])

RECURSIVE RatSum(_)
RatSum(s) == IF s = <<>> THEN Zero ELSE RatAdd(s[1], RatSum(Tail(s)))

\* np.mean of a non-empty list of floats
np_mean(s) == RatDiv(RatSum(s), Rat(Len(s), 1))

---------------------------------------------------------------------------
(* compute_metrics *)

\* The largest element of a non-empty set of integers
Max(S) == CHOOSE x \in S : \A y \in S : y <= x

\* The smallest element of a non-empty set of integers
Min(S) == CHOOSE x \in S : \A y \in S : x <= y

\* The elements of a finite set of integers in increasing order
RECURSIVE SortedSeq(_)
SortedSeq(S) ==
    IF S = {} THEN <<>> ELSE <<Min(S)>> \o SortedSeq(S \ {Min(S)})

\* row.argmax(): the first index (from 0) holding the largest logit
argmax(row) ==
    CHOOSE i \in 1..Len(row) :
        /\ row[i] = Max({row[j] : j \in 1..Len(row)})
        /\ \A j \in 1..(i - 1) : row[j] < row[i]

\* preds.argmax(axis=1), as class indices from 0
ArgmaxRows(logits) == [i \in DOMAIN logits |-> argmax(logits[i]) - 1]

\* accuracy_score(labels, preds)
accuracy_score(y_true, y_pred) ==
    Rat(Cardinality({i \in DOMAIN y_true : y_true[i] = y_pred[i]}), Len(y_true))

\* precision_recall_fscore_support(labels, preds, average=None): one value
\* per class present in labels or preds, classes in increasing order; an
\* undefined ratio (no predicted / no true sample, or P + R = 0) is 0.
PresentClasses(y_true, y_pred) ==
    SortedSeq({y_true[i] : i \in DOMAIN y_true} \cup {y_pred[i] : i \in DOMAIN y_pred})

TruePos(y_true, y_pred, c) ==
    Cardinality({i \in DOMAIN y_true : y_true[i] = c /\ y_pred[i] = c})

PrecisionOf(y_true, y_pred, c) ==
    LET n == Cardinality({i \in DOMAIN y_pred : y_pred[i] = c})
    IN  IF n = 0 THEN Zero ELSE Rat(TruePos(y_true, y_pred, c), n)

RecallOf(y_true, y_pred, c) ==
    LET n == Cardinality({i \in DOMAIN y_true : y_true[i] = c})
    IN  IF n = 0 THEN Zero ELSE Rat(TruePos(y_true, y_pred, c), n)

F1Of(y_true, y_pred, c) ==
    LET p == PrecisionOf(y_true, y_pred, c)
        r == RecallOf(y_true, y_pred, c)
    IN  IF RatAdd(p, r) = Zero
        THEN Zero
        ELSE RatDiv(RatMul(Rat(2, 1), RatMul(p, r)), RatAdd(p, r))

\* compute_metrics((preds, labels))
compute_metrics(logits, y_true) ==
    LET y_pred == ArgmaxRows(logits)
        cls == PresentClasses(y_true, y_pred)
    IN  [accuracy |-> accuracy_score(y_true, y_pred),
         precision |-> [k \in DOMAIN cls |-> PrecisionOf(y_true, y_pred, cls[k])],
         recall |-> [k \in DOMAIN cls |-> RecallOf(y_true, y_pred, cls[k])],
         f1 |-> [k \in DOMAIN cls |-> F1Of(y_true, y_pred, cls[k])]]

\* trainer.evaluate(): the metrics of compute_metrics under the prefix
\* "eval_" (the loss, runtime and epoch entries the Trainer adds are not
\* read by this program).
Evaluate(logits, y_true) ==
    LET m == compute_metrics(logits, y_true)
    IN  [eval_accuracy |-> m.accuracy, eval_precision |-> m.precision,
         eval_recall |-> m.recall, eval_f1 |-> m.f1]

---------------------------------------------------------------------------
(* aggregate_metrics *)

\* The mean of all values of all lists together
PooledMean(lists) ==
    LET RECURSIVE Concat(_)
        Concat(ls) == IF ls = <<>> THEN <<>> ELSE ls[1] \o Concat(Tail(ls))
    IN  np_mean(Concat(lists))

\* np.mean([np.mean(l) for l in lists])
MeanOfMeans(lists) == np_mean([i \in DOMAIN lists |-> np_mean(lists[i])])

aggregate_metrics(fm) ==
    [accuracy |-> np_mean([i \in DOMAIN fm |-> fm[i].eval_accuracy]),
     precision |-> MeanOfMeans([i \in DOMAIN fm |-> fm[i].eval_precision]),
     recall |-> MeanOfMeans([i \in DOMAIN fm |-> fm[i].eval_recall]),
     f1 |-> MeanOfMeans([i \in DOMAIN fm |-> fm[i].eval_f1])]

---------------------------------------------------------------------------
(* StratifiedKFold(n_splits=k, shuffle=True, random_state=42).split        *)
(*                                                                         *)
(* scikit-learn assigns every sample one test fold (its _make_test_folds): *)
(* the classes are numbered in order of first appearance, the samples      *)
(* sorted by class are dealt to the folds round-robin, which fixes how     *)
(* many samples of each class every fold gets; each class's fold numbers   *)
(* are then shuffled and given to the class's samples in index order.      *)
(* Fold f tests the samples assigned f and trains on all the others.       *)

\* k=10 of main's call
K == 10

\* The shuffles of the seeded generator are drawn from the rotations by
\* 0..MaxShift places.
MaxShift == 1

\* The distinct values of y in order of first appearance
RECURSIVE ClassesInOrder(_)
ClassesInOrder(y) ==
    IF y = <<>> THEN <<>>
    ELSE LET n == Len(y)
             before == ClassesInOrder(SubSeq(y, 1, n - 1))
         IN  IF \E i \in DOMAIN before : before[i] = y[n]
             THEN before ELSE Append(before, y[n])

\* The samples of class c, in index order
Members(y, c) == SortedSeq({i \in DOMAIN y : y[i] = c})

\* The number of samples of the classes before the k-th
ClassStart(y, k) ==
    LET cls == ClassesInOrder(y)
    IN  Cardinality({i \in DOMAIN y : \E j \in 1..(k - 1) : cls[j] = y[i]})

\* np.arange(n_splits).repeat(allocation[:, k]): the folds of the k-th
\* class's samples, in increasing order
FoldsForClass(y, k) ==
    LET cls == ClassesInOrder(y)
        n == Len(Members(y, cls[k]))
    IN  SortSeq([j \in 1..n |-> (ClassStart(y, k) + j - 1) % K],
                LAMBDA a, b : a < b)

\* rng.shuffle, as a rotation
Shuffle(s, shift) == [j \in DOMAIN s |-> s[((j - 1 + shift) % Len(s)) + 1]]

\* test_folds: the test fold (from 0) of every sample
MakeTestFolds(y, shift) ==
    LET cls == ClassesInOrder(y)
    IN  [i \in DOMAIN y |->
            LET k == CHOOSE j \in DOMAIN cls : cls[j] = y[i]
                mem == Members(y, y[i])
                pos == CHOOSE j \in DOMAIN mem : mem[j] = i
            IN  Shuffle(FoldsForClass(y, k), shift)[pos]]

\* split raises ValueError when there are fewer samples than folds, or when
\* every class has fewer members than there are folds
SplitRaises(y) ==
    \/ K > Len(y)
    \/ \A i \in DOMAIN y : Len(Members(y, y[i])) < K

\* train_idx and test_idx of fold f (from 0), as sorted index arrays
TrainIdx(tf, f) == SortedSeq({i \in DOMAIN tf : tf[i] # f})

TestIdx(tf, f) == SortedSeq({i \in DOMAIN tf : tf[i] = f})

---------------------------------------------------------------------------
(* One fold of cross_validate_model *)

\* texts[idx]: numpy indexing with an index array
SelectTexts(arr, idx) == [i \in DOMAIN idx |-> arr[idx[i]]]

\* SelectLabels taking the first len(idx) labels, arr[:len(idx)]
SelectLabelsByPosition(arr, idx) == [i \in DOMAIN idx |-> arr[i]]

\* labels[idx]
SelectLabels(arr, idx) == [i \in DOMAIN idx |-> arr[idx[i]]]

\* tokenizer(texts, truncation=True, padding=True, max_length=128): one
\* entry per text under every key; the token ids of text t are <<t>>.
Tokenizer(ts) ==
    [input_ids |-> [i \in DOMAIN ts |-> <<ts[i]>>],
     attention_mask |-> [i \in DOMAIN ts |-> <<1>>]]

\* preprocess_data(texts, labels, tokenizer)
preprocess_data(ts, ls) == <<Tokenizer(ts), ls>>

\* The list of dictionaries of lines 107-114
Dataset(encodings, ls) ==
    [i \in DOMAIN ls |->
        [input_ids |-> encodings.input_ids[i],
         attention_mask |-> encodings.attention_mask[i],
         labels |-> ls[i]]]

\* The dataset of one index array (lines 99-114)
FoldDataset(idx) ==
    LET pre == preprocess_data(SelectTexts(texts, idx), SelectLabels(labels, idx))
    IN  Dataset(pre[1], pre[2])

\* from_pretrained loading once: later folds get the previous fold's model
ReusedModel(mc) ==
    IF model.kind = "model" THEN model
    ELSE [kind |-> "model", num_labels |-> NumLabels(mc), trained_on |-> {}]

\* AutoModelForSequenceClassification.from_pretrained(model_id, num_labels):
\* the pretrained weights, trained on none of the samples
from_pretrained(mc) ==
    [kind |-> "model", num_labels |-> NumLabels(mc), trained_on |-> {}]

\* The model after trainer.train() on ds
Trained(m, ds) ==
    [m EXCEPT !.trained_on = @ \cup {ds[i] : i \in DOMAIN ds}]

\* What the evaluated model answers: the logits of one item.  The model
\* scores highest either the item's own label or the label after it.
Predictors == {"right", "wrong"}

\* At most MaxWrongFolds folds of a run evaluate a model that is wrong
MaxWrongFolds == 2

Logits(p, item, n) ==
    LET best == IF p = "right" THEN item.labels ELSE (item.labels + 1) % n
    IN  [c \in 1..n |-> IF c - 1 = best THEN 1 ELSE 0]

\* LoopDone after k - 1 folds
LoopDoneEarly(f) == f = K - 1

\* The for loop of line 93 ends when skf.split has yielded its k folds
LoopDone(f) == f = K

\* FoldNumber counting from 0
FoldNumberFromZero(f) == f

\* "fold": fold + 1
FoldNumber(f) == f + 1

---------------------------------------------------------------------------
(* Inputs *)

Row(s, a, b) == "sentence" :> s @@ "emotion-A" :> a @@ "emotion-B" :> b

\* The CSVs of n rows whose emotion cells are drawn from InputEmotions; the
\* sentence of row r is the text r.
CSVsOfLen(n) ==
    {[r \in 1..n |-> Row(r, c[r][1], c[r][2])] :
        c \in [1..n -> InputEmotions \X InputEmotions]}

SmallCSVs == UNION {CSVsOfLen(n) : n \in 1..MaxRows}

None == [kind |-> "None"]

\* The state before anything has run: the arguments and the CSV are given,
\* control is at the statement named at
Start(rows, mc, at) ==
    /\ multiclass = mc
    /\ csv = rows
    /\ pc = at
    /\ error = "none"
    /\ df = None
    /\ texts = <<>>
    /\ labels = <<>>
    /\ test_folds = <<>>
    /\ fold = 0
    /\ train_dataset = <<>>
    /\ test_dataset = <<>>
    /\ model = None
    /\ fold_metrics = <<>>
    /\ fold_detailed_metrics = <<>>
    /\ avg_metrics = None
    /\ files = <<>>
    /\ calls = <<>>
    /\ runs = <<>>

---------------------------------------------------------------------------
(* main *)

\* df = load_data(args.input_csv, args.multiclass)   (line 181)
MainLoadData ==
    /\ pc = "load_data"
    /\ LET got == load_data(csv, multiclass) IN
         IF got.kind = "KeyError"
         THEN /\ pc' = "crashed"
              /\ error' = "KeyError"
              /\ calls' = Append(calls, "load_csv")
              /\ UNCHANGED df
         ELSE /\ pc' = "display_emotion_counts"
              /\ df' = got
              /\ calls' = calls \o <<"load_csv", "build_labels">>
              /\ UNCHANGED error
    /\ UNCHANGED <<multiclass, csv, texts, labels, test_folds, fold,
                   train_dataset, test_dataset, model, fold_metrics,
                   fold_detailed_metrics, avg_metrics, files, runs>>

\* display_emotion_counts(df)   (line 182): df[[...]] of the tuple that
\* load_data returns in binary mode raises TypeError
MainDisplayEmotionCounts ==
    /\ pc = "display_emotion_counts"
    /\ IF df.kind = "DataFrame"
       THEN pc' = "columns" /\ UNCHANGED error
       ELSE pc' = "crashed" /\ error' = "TypeError"
    /\ UNCHANGED <<multiclass, csv, df, texts, labels, test_folds, fold,
                   train_dataset, test_dataset, model, fold_metrics,
                   fold_detailed_metrics, avg_metrics, files, calls, runs>>

\* texts = df['sentence'].to_numpy(); labels = df['labels'].to_numpy();
\* os.makedirs(output_dir)   (lines 183-187)
MainColumns ==
    /\ pc = "columns"
    /\ df.kind = "DataFrame"
    /\ texts' = [r \in DOMAIN df.rows |-> df.rows[r]["sentence"]]
    /\ labels' = df.labels
    /\ pc' = "split"
    /\ UNCHANGED <<multiclass, csv, error, df, test_folds, fold,
                   train_dataset, test_dataset, model, fold_metrics,
                   fold_detailed_metrics, avg_metrics, files, calls, runs>>

---------------------------------------------------------------------------
(* cross_validate_model *)

\* Lines 86-93, up to the first fold: skf.split(texts, labels) decides the
\* test fold of every sample, or raises ValueError
CVSplit ==
    /\ pc = "split"
    /\ IF SplitRaises(labels)
       THEN /\ pc' = "crashed"
            /\ error' = "ValueError"
            /\ UNCHANGED test_folds
       ELSE /\ \E shift \in 0..MaxShift : test_folds' = MakeTestFolds(labels, shift)
            /\ pc' = "loop"
            /\ UNCHANGED error
    /\ UNCHANGED <<multiclass, csv, df, texts, labels, fold, train_dataset,
                   test_dataset, model, fold_metrics, fold_detailed_metrics,
                   avg_metrics, files, calls, runs>>

\* Lines 93-140 of one fold: split the data, preprocess, build the two
\* datasets, load the model and define the Trainer
CVFoldSetup ==
    /\ pc = "loop"
    /\ ~LoopDone(fold)
    /\ train_dataset' = FoldDataset(TrainIdx(test_folds, fold))
    /\ test_dataset' = FoldDataset(TestIdx(test_folds, fold))
    /\ model' = from_pretrained(multiclass)
    /\ calls' = Append(calls, "tokenize")
    /\ pc' = "train"
    /\ UNCHANGED <<multiclass, csv, error, df, texts, labels, test_folds, fold,
                   fold_metrics, fold_detailed_metrics, avg_metrics, files, runs>>

\* trainer.train()   (line 143)
CVTrain ==
    /\ pc = "train"
    /\ \/ /\ model' = Trained(model, train_dataset)
          /\ calls' = Append(calls, "train")
          /\ pc' = "evaluate"
          /\ UNCHANGED error
       \/ /\ pc' = "crashed"
          /\ error' = "TrainError"
          /\ UNCHANGED <<model, calls>>
    /\ UNCHANGED <<multiclass, csv, df, texts, labels, test_folds, fold,
                   train_dataset, test_dataset, fold_metrics,
                   fold_detailed_metrics, avg_metrics, files, runs>>

\* eval_metrics = trainer.evaluate() and the two appends   (lines 144-149)
CVEvaluate ==
    /\ pc = "evaluate"
    /\ \/ \E p \in Predictors :
            LET wrong == Cardinality({j \in DOMAIN runs : runs[j].predictor = "wrong"})
                logits == [i \in DOMAIN test_dataset |->
                              Logits(p, test_dataset[i], model.num_labels)]
                y_true == [i \in DOMAIN test_dataset |-> test_dataset[i].labels]
                eval_metrics == Evaluate(logits, y_true)
            IN  /\ p = "wrong" => wrong < MaxWrongFolds
                /\ fold_metrics' = Append(fold_metrics, eval_metrics)
                /\ fold_detailed_metrics' =
                       Append(fold_detailed_metrics,
                              ("fold" :> FoldNumber(fold)) @@ eval_metrics)
                /\ runs' = Append(runs, [metrics |-> eval_metrics,
                                         predictor |-> p,
                                         trained_on |-> model.trained_on,
                                         evaluated_on |-> test_dataset])
                /\ calls' = Append(calls, "evaluate")
                /\ fold' = fold + 1
                /\ pc' = "loop"
                /\ UNCHANGED error
       \/ /\ pc' = "crashed"
          /\ error' = "EvaluateError"
          /\ UNCHANGED <<fold_metrics, fold_detailed_metrics, runs, calls, fold>>
    /\ UNCHANGED <<multiclass, csv, df, texts, labels, test_folds,
                   train_dataset, test_dataset, model, avg_metrics, files>>

\* fold_metrics_df.to_csv(fold_metrics_csv)   (lines 152-155)
CVSaveFoldMetrics ==
    /\ pc = "loop"
    /\ LoopDone(fold)
    /\ \/ /\ files' = Append(files, [name |-> "fold_metrics.csv",
                                     content |-> fold_detailed_metrics])
          /\ calls' = Append(calls, "write_fold_metrics")
          /\ pc' = "aggregate"
          /\ UNCHANGED error
       \/ /\ pc' = "crashed"
          /\ error' = "OSError"
          /\ UNCHANGED <<files, calls>>
    /\ UNCHANGED <<multiclass, csv, df, texts, labels, test_folds, fold,
                   train_dataset, test_dataset, model, fold_metrics,
                   fold_detailed_metrics, avg_metrics, runs>>

\* avg_metrics = aggregate_metrics(fold_metrics); return   (lines 158-160)
CVAggregate ==
    /\ pc = "aggregate"
    /\ avg_metrics' = aggregate_metrics(fold_metrics)
    /\ calls' = Append(calls, "aggregate")
    /\ pc' = "save_metrics"
    /\ UNCHANGED <<multiclass, csv, error, df, texts, labels, test_folds, fold,
                   train_dataset, test_dataset, model, fold_metrics,
                   fold_detailed_metrics, files, runs>>

\* The name of the averaged-metrics file (line 199), without the model id
AvgMetricsCsv(mc) == IF mc THEN "multiclass_metrics.csv" ELSE "binary_metrics.csv"

\* save_metrics(avg_metrics, avg_metrics_csv)   (lines 199-200)
MainSaveMetrics ==
    /\ pc = "save_metrics"
    /\ \/ /\ files' = Append(files, [name |-> AvgMetricsCsv(multiclass),
                                     content |-> avg_metrics])
          /\ calls' = Append(calls, "write_avg_metrics")
          /\ pc' = "done"
          /\ UNCHANGED error
       \/ /\ pc' = "crashed"
          /\ error' = "OSError"
          /\ UNCHANGED <<files, calls>>
    /\ UNCHANGED <<multiclass, csv, df, texts, labels, test_folds, fold,
                   train_dataset, test_dataset, model, fold_metrics,
                   fold_detailed_metrics, avg_metrics, runs>>

---------------------------------------------------------------------------
(* Spec: a run of main *)

\* The extra rows a CSV of the run may have beyond K
MaxExtraRows == 0

\* n rows of one emotion, numbered from first
Body(first, n) == [r \in 1..n |-> Row(first + r - 1, "Joy", NaN)]

\* The CSVs of a run: at most one row whose emotion-A is drawn from
\* InputEmotions, then K-1 .. K+MaxExtraRows rows of "Joy".
MainCSVs ==
    {Body(1, n) : n \in (K - 1)..(K + MaxExtraRows)}
    \cup {<<Row(1, a, NaN)>> \o Body(2, n) :
            a \in InputEmotions, n \in (K - 1)..(K + MaxExtraRows)}

Init == \E rows \in MainCSVs, mc \in BOOLEAN : Start(rows, mc, "load_data")

Next ==
    \/ MainLoadData
    \/ MainDisplayEmotionCounts
    \/ MainColumns
    \/ CVSplit
    \/ CVFoldSetup
    \/ CVTrain
    \/ CVEvaluate
    \/ CVSaveFoldMetrics
    \/ CVAggregate
    \/ MainSaveMetrics

Spec == Init /\ [][Next]_vars

---------------------------------------------------------------------------
(* SpecAgg: compute_metrics and aggregate_metrics on bounded inputs: up to *)
(* MaxFolds folds of up to MaxTest test samples each, labels and logits    *)
(* those of the 2-label model.                                             *)

MaxFolds == 2

MaxTest == 2

\* The one-hot logit rows of a model with n labels
OneHotRows(n) == {[c \in 1..n |-> IF c = h THEN 1 ELSE 0] : h \in 1..n}

InitAgg == Start(<<>>, FALSE, "folds")

\* One fold's trainer.evaluate() and fold_metrics.append   (lines 144-148)
AggEvaluate ==
    /\ pc = "folds"
    /\ Len(fold_metrics) < MaxFolds
    /\ \E m \in 1..MaxTest :
         \E logits \in [1..m -> OneHotRows(NumLabels(multiclass))],
            y_true \in [1..m -> 0..(NumLabels(multiclass) - 1)] :
              fold_metrics' = Append(fold_metrics, Evaluate(logits, y_true))
    /\ UNCHANGED <<multiclass, csv, pc, error, df, texts, labels, test_folds,
                   fold, train_dataset, test_dataset, model,
                   fold_detailed_metrics, avg_metrics, files, calls, runs>>

\* avg_metrics = aggregate_metrics(fold_metrics)   (line 158)
AggAggregate ==
    /\ pc = "folds"
    /\ fold_metrics # <<>>
    /\ avg_metrics' = aggregate_metrics(fold_metrics)
    /\ pc' = "aggregated"
    /\ UNCHANGED <<multiclass, csv, error, df, texts, labels, test_folds, fold,
                   train_dataset, test_dataset, model, fold_metrics,
                   fold_detailed_metrics, files, calls, runs>>

NextAgg == AggEvaluate \/ AggAggregate

SpecAgg == InitAgg /\ [][NextAgg]_vars

---------------------------------------------------------------------------
(* SpecLoad: load_data on every small CSV, in both modes *)

InitLoad == \E rows \in SmallCSVs, mc \in BOOLEAN : Start(rows, mc, "load_data")

NextLoad == MainLoadData

SpecLoad == InitLoad /\ [][NextLoad]_vars

---------------------------------------------------------------------------
(* Properties of load_data (SpecLoad) *)

NineEmotions ==
    {"Joy", "Sadness", "Anger", "Fear", "Trust", "Disgust", "Surprise",
     "Anticipation", "Neutral"}

Loaded == pc # "load_data"

\* C3: in multiclass mode, when load_data returns, the 'labels' column has
\* one value per row, the value of row r is MULTICLASS_LABEL_MAP[emotion-A
\* of r] whatever emotion-B is, and it lies in 0..8, below num_labels = 9.
C3_MulticlassLabelIsEmotionA ==
    (multiclass /\ df.kind = "DataFrame") =>
        /\ DOMAIN df.labels = DOMAIN csv
        /\ \A r \in DOMAIN csv :
              /\ df.labels[r] = MULTICLASS_LABEL_MAP[csv[r]["emotion-A"]]
              /\ df.labels[r] \in 0..8
              /\ df.labels[r] < NumLabels(TRUE)
        /\ NumLabels(TRUE) = 9

\* A multiclass load where one row has an emotion-B other than its
\* emotion-A and another row has none
C3_Witness ==
    /\ multiclass
    /\ df.kind = "DataFrame"
    /\ \E r \in DOMAIN csv :
          csv[r]["emotion-B"] \in NineEmotions \ {csv[r]["emotion-A"]}
    /\ \E r \in DOMAIN csv : csv[r]["emotion-B"] = NaN

\* C4: in binary mode load_data returns nine lists, one per emotion, each
\* with one entry per row in row order; entry r of emotion e is 1 if e is
\* the row's emotion-A or emotion-B and 0 otherwise, so it depends on
\* nothing but e and row r.
C4_BinaryTargets ==
    (~multiclass /\ Loaded) =>
        /\ df.kind = "tuple"
        /\ DOMAIN df.binary_labels = NineEmotions
        /\ \A e \in NineEmotions :
              /\ DOMAIN df.binary_labels[e] = DOMAIN csv
              /\ \A r \in DOMAIN csv :
                    /\ df.binary_labels[e][r] \in {0, 1}
                    /\ df.binary_labels[e][r] = 1 <=>
                          (e = csv[r]["emotion-A"] \/ e = csv[r]["emotion-B"])

\* A binary load of two rows, one Positive for two emotions (by emotion-A
\* and by emotion-B), the other for none
C4_Witness ==
    /\ ~multiclass
    /\ df.kind = "tuple"
    /\ Len(csv) = 2
    /\ \E r \in DOMAIN csv :
          /\ csv[r]["emotion-A"] \in NineEmotions
          /\ csv[r]["emotion-B"] \in NineEmotions \ {csv[r]["emotion-A"]}
          /\ df.binary_labels[csv[r]["emotion-B"]][r] = 1
    /\ \E r \in DOMAIN csv :
          \A e \in NineEmotions : df.binary_labels[e][r] = 0

\* A row on which the multiclass lookup fails: emotion-A missing or
\* unknown, or emotion-B present and unknown
BadRow(row) ==
    \/ row["emotion-A"] \notin NineEmotions
    \/ row["emotion-B"] # NaN /\ row["emotion-B"] \notin NineEmotions

\* C10: in multiclass mode load_data raises (KeyError, no labels column)
\* exactly when some row's emotion-A is missing or unknown or its emotion-B
\* is present and unknown; in binary mode it never raises, and a missing or
\* unknown emotion makes the row Negative for the nine emotions it matches
\* none of.
C10_UnknownEmotions ==
    Loaded =>
        /\ multiclass =>
              /\ (pc = "crashed") <=> (\E r \in DOMAIN csv : BadRow(csv[r]))
              /\ pc = "crashed" => error = "KeyError" /\ df = None
              /\ pc # "crashed" => df.kind = "DataFrame"
        /\ ~multiclass =>
              /\ pc # "crashed" /\ error = "none" /\ df.kind = "tuple"
              /\ \A r \in DOMAIN csv, e \in NineEmotions :
                    (csv[r]["emotion-A"] \notin NineEmotions
                        /\ csv[r]["emotion-B"] \notin NineEmotions)
                    => df.binary_labels[e][r] = 0

\* A multiclass load that fails only because of an unknown emotion-B, on a
\* CSV that also has a row without emotion-B
C10_Witness ==
    /\ multiclass
    /\ pc = "crashed"
    /\ \A r \in DOMAIN csv : csv[r]["emotion-A"] \in NineEmotions
    /\ \E r \in DOMAIN csv : csv[r]["emotion-B"] = NaN

---------------------------------------------------------------------------
(* Properties of aggregate_metrics (SpecAgg) *)

\* q is the arithmetic mean of the non-empty list l: q * len(l) = sum(l)
IsMean(q, l) == l # <<>> /\ RatMul(q, Rat(Len(l), 1)) = RatSum(l)

\* v is one number, not a list
IsScalar(v) == DOMAIN v = {1, 2} /\ v[1] \in Int /\ v[2] \in Nat \ {0}

\* The mean of every list of ls, each as sum / length
Means(ls) == [i \in DOMAIN ls |-> RatDiv(RatSum(ls[i]), Rat(Len(ls[i]), 1))]

\* C5: the result of aggregate_metrics on a non-empty list of fold results
\* has exactly the keys accuracy, precision, recall and f1, each a scalar;
\* accuracy is the mean of the folds' eval_accuracy, and precision, recall
\* and f1 are each the mean over the folds of the fold's mean over its
\* per-class values, every fold weighing the same.
C5_AggregateIsMeanOfFoldMeans ==
    pc = "aggregated" =>
        LET fm == fold_metrics IN
        /\ DOMAIN avg_metrics = {"accuracy", "precision", "recall", "f1"}
        /\ \A key \in DOMAIN avg_metrics : IsScalar(avg_metrics[key])
        /\ IsMean(avg_metrics.accuracy, [i \in DOMAIN fm |-> fm[i].eval_accuracy])
        /\ IsMean(avg_metrics.precision,
                  Means([i \in DOMAIN fm |-> fm[i].eval_precision]))
        /\ IsMean(avg_metrics.recall,
                  Means([i \in DOMAIN fm |-> fm[i].eval_recall]))
        /\ IsMean(avg_metrics.f1, Means([i \in DOMAIN fm |-> fm[i].eval_f1]))

\* An aggregation of folds with different numbers of classes, where the
\* mean of the fold means is not the mean of all per-class values
C5_Witness ==
    /\ pc = "aggregated"
    /\ \E i, j \in DOMAIN fold_metrics :
          Len(fold_metrics[i].eval_precision) # Len(fold_metrics[j].eval_precision)
    /\ avg_metrics.precision #
          PooledMean([i \in DOMAIN fold_metrics |-> fold_metrics[i].eval_precision])
    /\ avg_metrics.accuracy \notin {Rat(0, 1), Rat(1, 1)}

---------------------------------------------------------------------------
(* Properties of a run of main (Spec) *)

\* s is a prefix of t
IsPrefix(s, t) == Len(s) <= Len(t) /\ s = SubSeq(t, 1, Len(s))

\* The number of entries of s equal to x
Count(s, x) == Cardinality({i \in DOMAIN s : s[i] = x})

RECURSIVE Repeat(_, _)
Repeat(s, n) == IF n = 0 THEN <<>> ELSE s \o Repeat(s, n - 1)

\* The stages of a complete run, in order
StagesOfRun ==
    <<"load_csv", "build_labels">>
    \o Repeat(<<"tokenize", "train", "evaluate">>, 10)
    \o <<"write_fold_metrics", "aggregate", "write_avg_metrics">>

AvgFileWritten == \E i \in DOMAIN files : files[i].name = AvgMetricsCsv(multiclass)

FoldFileWritten == \E i \in DOMAIN files : files[i].name = "fold_metrics.csv"

WellFormed(rows) ==
    /\ \A r \in DOMAIN rows : ~BadRow(rows[r])
    /\ Len(rows) >= K
    /\ \E r \in DOMAIN rows :
          Cardinality({q \in DOMAIN rows :
              rows[q]["emotion-A"] = rows[r]["emotion-A"]}) >= K

\* C2: in binary mode, on a well-formed CSV, a run ends early only when a
\* training, evaluation or file-writing call fails: otherwise it goes on to
\* save_metrics.
C2_BinaryRunsEndToEnd ==
    (~multiclass /\ WellFormed(csv) /\ pc = "crashed")
        => error \in {"TrainError", "EvaluateError", "OSError"}

\* The texts of a dataset
TextsOf(ds) == {ds[i].input_ids[1] : i \in DOMAIN ds}

AllTexts == {csv[r]["sentence"] : r \in DOMAIN csv}

\* Every item of ds carries the label of the row its text comes from
Paired(ds) ==
    \A i \in DOMAIN ds :
        \E r \in DOMAIN csv :
            /\ ds[i].input_ids = <<csv[r]["sentence"]>>
            /\ ds[i].labels = MULTICLASS_LABEL_MAP[csv[r]["emotion-A"]]

\* C6: in every fold the train and the test dataset hold disjoint sets of
\* samples that together are all samples, each sample once, each text with
\* its own row's label; the test sets of different folds are disjoint, and
\* after the k folds every sample has been in exactly one test set.
C6_FoldsPartitionSamples ==
    /\ pc \in {"train", "evaluate"} =>
          /\ TextsOf(train_dataset) \cap TextsOf(test_dataset) = {}
          /\ TextsOf(train_dataset) \cup TextsOf(test_dataset) = AllTexts
          /\ Len(train_dataset) + Len(test_dataset) = Len(csv)
          /\ Paired(train_dataset)
          /\ Paired(test_dataset)
    /\ \A i, j \in DOMAIN runs :
          i # j => TextsOf(runs[i].evaluated_on) \cap TextsOf(runs[j].evaluated_on) = {}
    /\ Len(runs) = 10 =>
          \A t \in AllTexts :
              Cardinality({j \in DOMAIN runs : t \in TextsOf(runs[j].evaluated_on)}) = 1

\* All ten folds evaluated, on data with two classes
C6_Witness ==
    /\ Len(runs) = 10
    /\ \E r \in DOMAIN csv : csv[r]["emotion-A"] # "Joy"
    /\ Len(csv) > 10

\* C7: the model evaluated in a fold was trained on exactly the samples
\* outside that fold's test set, so on none of the test samples and on
\* nothing an earlier fold trained on its own; train and evaluate are
\* called once per fold, k times each in a full run.
C7_FreshModelPerFold ==
    /\ \A j \in DOMAIN runs :
          LET trained == {it.input_ids[1] : it \in runs[j].trained_on} IN
          /\ trained \cap TextsOf(runs[j].evaluated_on) = {}
          /\ trained = AllTexts \ TextsOf(runs[j].evaluated_on)
    /\ pc = "evaluate" =>
          {it.input_ids[1] : it \in model.trained_on} = TextsOf(train_dataset)
    /\ Count(calls, "evaluate") = fold
    /\ Count(calls, "train") =
          IF pc = "evaluate" \/ error = "EvaluateError" THEN fold + 1 ELSE fold
    /\ Len(runs) = fold
    /\ pc \in {"aggregate", "save_metrics", "done"} =>
          Count(calls, "train") = 10 /\ Count(calls, "evaluate") = 10

\* A finished run whose folds had different training sets
C7_Witness ==
    /\ pc = "done"
    /\ Len(runs) = 10
    /\ runs[1].trained_on # runs[2].trained_on

\* C8: fold_metrics and fold_detailed_metrics hold one entry per completed
\* fold: entry j is the result of the j-th evaluation, which was on the
\* test set of fold j, and the detailed entry adds "fold": j; once the loop
\* has ended both hold k entries and avg_metrics is aggregate_metrics of
\* all k.
C8_FoldBookkeeping ==
    /\ Len(fold_metrics) = fold
    /\ Len(fold_detailed_metrics) = fold
    /\ \A j \in DOMAIN fold_metrics :
          /\ fold_metrics[j] = runs[j].metrics
          /\ TextsOf(runs[j].evaluated_on) =
                {texts[i] : i \in {q \in DOMAIN test_folds : test_folds[q] = j - 1}}
          /\ fold_detailed_metrics[j] = ("fold" :> j) @@ fold_metrics[j]
    /\ pc \in {"aggregate", "save_metrics", "done"} => fold = 10
    /\ avg_metrics # None =>
          /\ Len(fold_metrics) = 10
          /\ avg_metrics = aggregate_metrics(fold_metrics)
    /\ FoldFileWritten =>
          \E i \in DOMAIN files :
              /\ files[i].name = "fold_metrics.csv"
              /\ [j \in DOMAIN files[i].content |-> files[i].content[j]["fold"]]
                    = [j \in 1..10 |-> j]

\* A finished run whose folds did not all score the same
C8_Witness ==
    /\ pc = "done"
    /\ Len(fold_metrics) = 10
    /\ fold_metrics[1] # fold_metrics[2]
    /\ avg_metrics.accuracy = Rat(9, 10)

\* C9: a run that ends with training or evaluation raising has written no
\* metrics file, however many folds had completed; fold_metrics.csv is
\* written before the averaged metrics, and a run whose final save fails
\* leaves fold_metrics.csv as the only file.
C9_MetricsAllOrNothing ==
    /\ error \in {"TrainError", "EvaluateError"} => files = <<>>
    /\ files # <<>> =>
          /\ files[1].name = "fold_metrics.csv"
          /\ Len(files[1].content) = 10
          /\ Len(runs) = 10
    /\ Len(files) <= 2
    /\ Len(files) = 2 => files[2].name = AvgMetricsCsv(multiclass)
    /\ (pc = "crashed" /\ error = "OSError" /\ Count(calls, "aggregate") = 1)
          => Len(files) = 1

\* A run that failed in training after some folds had completed
C9_Witness ==
    /\ pc = "crashed"
    /\ error = "TrainError"
    /\ fold >= 2
    /\ fold_metrics # <<>>
    /\ files = <<>>

===========================================================================
